---- MODULE Spec2Model ----
(***************************************************************************)
(* A model of lrcup: the proof-of-work solver (lrcup/challenge.py), the    *)
(* challenge client (lrcup/controller.py), the LRC codec and tag container *)
(* (lrcup/audio/__init__.py) and the offset command (lrcup/__main__.py).   *)
(***************************************************************************)
EXTENDS Integers, Sequences, FiniteSets, TLC

VARIABLES
    \* ---- challenge.py: solve / find_nonce
    target,      \* target_bytes: the threshold, a byte string
    hash_value,  \* hash_value[i]: the digest thread i computed for its nonce and found valid
    solution,    \* Solution.nonce, the shared found slot
    tpc,         \* tpc[i]: where thread i stands in find_nonce
    tnonce,      \* tnonce[i]: thread i's local nonce
    mpc,         \* where solve itself stands
    started,     \* how many of the threads solve has started
    joined,      \* how many of the threads solve has joined
    result,      \* the value solve returned
    writes,      \* the assignments to Solution.nonce, in order (history): nonce and its digest
    \* ---- controller.py: LRCLib.request_challenge
    cpc,         \* where request_challenge stands
    data,        \* the server's answer: prefix and target
    cnonce,      \* solve_challenge's nonce
    chash,       \* the digest verify_nonce accepted
    token,       \* the token request_challenge returned
    \* ---- audio/__init__.py: the LRC codec, and __main__.py: process_lyrics
    lyrics_doc,  \* the list of (text, time) handed to dump_lyrics, if any
    lyrics_text, \* the LRC text in hand
    parsed,      \* what parse_lyrics made of lyrics_text, if called
    processed,   \* what process_lyrics made of lyrics_text, if called
    \* ---- audio/__init__.py: AudioFile, and __main__.py: offset
    disk,        \* the file: its suffix, the tags saved in it, its text (an .lrc file)
    audio,       \* the AudioFile object, if one was constructed: its tag store
    loaded,      \* whether the tag library was invoked on the file
    setlog,      \* the set_lyrics calls made on the object, in order (history)
    ret          \* the outcome of the last call

svars == <<target, hash_value, solution, tpc, tnonce, mpc, started, joined, result, writes>>

cvars == <<cpc, data, cnonce, chash, token>>

kvars == <<lyrics_doc, lyrics_text, parsed, processed>>

avars == <<disk, audio, loaded, setlog, ret>>

vars == <<svars, cvars, kvars, avars>>

(***************************************************************************)
(* Bounds of the model.                                                    *)
(***************************************************************************)
MaxNonce == 5       \* the candidates a run scans are 0..MaxNonce
MaxLines == 2       \* a document or a text has at most MaxLines lines
MaxSec == 1         \* a document's offsets have 0..MaxSec whole seconds
MaxCs == 5          \* and 0..MaxCs hundredths of a second
SolveDigestLen == 1 \* the width in bytes of the digests and target of solve's threads
DigestLen == 2      \* the width in bytes of the digests and targets of request_challenge
MaxCalls == 2       \* set_lyrics is called at most MaxCalls times on an AudioFile
MaxStart == 2       \* the first line of a stored document is at 0..MaxStart seconds
MaxPart == 1        \* the minutes and the seconds of an offset argument are in 0..MaxPart
MaxTime == 65000    \* offset is applied while the offsets stay at or below MaxTime ms

(***************************************************************************)
(* Program constants.                                                      *)
(***************************************************************************)
Workers == 4        \* solve: range(4)
Step == 4           \* solve: the step handed to find_nonce
EmptyNonce == 0     \* Solution.__init__: self.nonce = 0

Threads == 0..(Workers - 1)
Nonces == 0..MaxNonce
Byte == {0, 1}
Digests == [1..SolveDigestLen -> Byte]
NoHash == << >>

\* None is << >>, Some(x) is <<x>>
None == << >>
Some(x) == <<x>>

\* the outcome of a call: what it returned or raised
NoRet == [op |-> "", ok |-> TRUE, error |-> "", text |-> None, language |-> None,
          arg |-> None, first |-> 0, delta |-> 0]

\* Every part of the program but the one running is at rest.
Idle(running) ==
    /\ IF running = "solve" THEN TRUE
       ELSE /\ target = NoHash
            /\ hash_value = [i \in Threads |-> NoHash]
            /\ solution = EmptyNonce
            /\ tpc = [i \in Threads |-> "new"]
            /\ tnonce = [i \in Threads |-> i]
            /\ mpc = "idle"
            /\ started = 0
            /\ joined = 0
            /\ result = EmptyNonce
            /\ writes = << >>
    /\ IF running = "client" THEN TRUE
       ELSE /\ cpc = "idle"
            /\ data = [prefix |-> "", target |-> NoHash]
            /\ cnonce = 0
            /\ chash = NoHash
            /\ token = [prefix |-> "", nonce |-> 0]
    /\ IF running = "codec" THEN TRUE
       ELSE /\ lyrics_doc = None
            /\ lyrics_text = None
            /\ parsed = None
            /\ processed = None
    /\ IF running = "audio" THEN TRUE
       ELSE /\ disk = [suffix |-> "", tags |-> << >>, text |-> << >>]
            /\ audio = None
            /\ loaded = FALSE
            /\ setlog = << >>
            /\ ret = NoRet

\* bytes.__lt__: lexicographic order, the first differing byte decides and a
\* proper prefix is the smaller.
RECURSIVE BytesLessFrom(_, _, _)
BytesLessFrom(a, b, i) ==
    IF i > Len(a) \/ i > Len(b) THEN Len(a) < Len(b)
    ELSE IF a[i] # b[i] THEN a[i] < b[i]
    ELSE BytesLessFrom(a, b, i + 1)

RECURSIVE BytesLessEqFrom(_, _, _)
BytesLessEqFrom(a, b, i) ==
    IF i > Len(a) \/ i > Len(b) THEN Len(a) <= Len(b)
    ELSE IF a[i] # b[i] THEN a[i] < b[i]
    ELSE BytesLessEqFrom(a, b, i + 1)

BytesLessEq(a, b) == BytesLessEqFrom(a, b, 1)

BytesLess(a, b) == BytesLessFrom(a, b, 1)

\* Solution.is_solved
is_solved(nonce) == nonce # EmptyNonce

\* is_nonce_valid, given hash_value
is_nonce_valid(h, target_bytes) == BytesLess(h, target_bytes)

StoreNonceIfEmpty(old, nonce) == IF is_solved(old) THEN old ELSE nonce

\* find_nonce: solution.nonce = nonce
StoreNonce(old, nonce) == nonce

(***************************************************************************)
(* solve and its four find_nonce threads.                                  *)
(***************************************************************************)
SolveInit ==
    /\ Idle("solve")
    /\ target \in Digests
    /\ hash_value = [i \in Threads |-> NoHash]
    /\ solution = EmptyNonce
    /\ tpc = [i \in Threads |-> "new"]
    /\ tnonce = [i \in Threads |-> i]
    /\ mpc = "start"
    /\ started = 0
    /\ joined = 0
    /\ result = EmptyNonce
    /\ writes = << >>

\* solve: [t.start() for t in threads]
SolveStart ==
    /\ mpc = "start"
    /\ IF started < Workers
       THEN /\ tpc' = [tpc EXCEPT ![started] = "check"]
            /\ started' = started + 1
            /\ mpc' = mpc
       ELSE /\ mpc' = "join"
            /\ UNCHANGED <<tpc, started>>
    /\ UNCHANGED <<target, hash_value, solution, tnonce, joined, result, writes>>
    /\ UNCHANGED <<cvars, kvars, avars>>

\* find_nonce: while not solution.is_solved()
FindNonceCheck(i) ==
    /\ tpc[i] = "check"
    /\ tpc' = [tpc EXCEPT ![i] = IF is_solved(solution) THEN "done" ELSE "hash"]
    /\ UNCHANGED <<target, hash_value, solution, tnonce, mpc, started, joined, result, writes>>
    /\ UNCHANGED <<cvars, kvars, avars>>

\* find_nonce: if is_nonce_valid(prefix, nonce, target), else nonce += step.
\* Thread i scans i, i + 4, ...: each candidate is hashed by one thread, once, so
\* its sha256 digest is drawn when it is computed. A rejected digest is dropped.
FindNonceHash(i) ==
    /\ tpc[i] = "hash"
    /\ \E h \in Digests :
        IF is_nonce_valid(h, target)
        THEN /\ tpc' = [tpc EXCEPT ![i] = "write"]
             /\ hash_value' = [hash_value EXCEPT ![i] = h]
             /\ tnonce' = tnonce
        ELSE /\ tnonce[i] + Step <= MaxNonce
             /\ tnonce' = [tnonce EXCEPT ![i] = tnonce[i] + Step]
             /\ tpc' = [tpc EXCEPT ![i] = "check"]
             /\ hash_value' = hash_value
    /\ UNCHANGED <<target, solution, mpc, started, joined, result, writes>>
    /\ UNCHANGED <<cvars, kvars, avars>>

\* find_nonce: solution.nonce = nonce; break
FindNonceWrite(i) ==
    /\ tpc[i] = "write"
    /\ solution' = StoreNonce(solution, tnonce[i])
    /\ writes' = Append(writes, [nonce |-> tnonce[i], hash |-> hash_value[i]])
    /\ tpc' = [tpc EXCEPT ![i] = "done"]
    /\ UNCHANGED <<target, hash_value, tnonce, mpc, started, joined, result>>
    /\ UNCHANGED <<cvars, kvars, avars>>

\* solve: [t.join() for t in threads]; return solution.nonce
SolveJoin ==
    /\ mpc = "join"
    /\ IF joined < Workers
       THEN /\ tpc[joined] = "done"
            /\ joined' = joined + 1
            /\ UNCHANGED <<mpc, result>>
       ELSE /\ mpc' = "returned"
            /\ result' = solution
            /\ UNCHANGED joined
    /\ UNCHANGED <<target, hash_value, solution, tpc, tnonce, started, writes>>
    /\ UNCHANGED <<cvars, kvars, avars>>

(***************************************************************************)
(* LRCLib.request_challenge with its verify_nonce and solve_challenge.     *)
(***************************************************************************)
Prefixes == {"A1", "B2"}
ChallengeDigests == [1..DigestLen -> Byte]

\* verify_nonce: for i in range(result_len - 1), from byte i + 1 of the sequences
RECURSIVE VerifyFrom(_, _, _)
VerifyFrom(res, tgt, i) ==
    IF i > Len(res) - 1 THEN TRUE
    ELSE IF res[i] > tgt[i] THEN FALSE
    ELSE IF res[i] < tgt[i] THEN TRUE
    ELSE VerifyFrom(res, tgt, i + 1)

\* verify_nonce
verify_nonce(res, tgt) ==
    IF Len(res) # Len(tgt) THEN FALSE ELSE VerifyFrom(res, tgt, 1)

ClientInit ==
    /\ Idle("client")
    /\ cpc = "request"
    /\ data = [prefix |-> "", target |-> NoHash]
    /\ cnonce = 0
    /\ chash = NoHash
    /\ token = [prefix |-> "", nonce |-> 0]

\* request_challenge: data = self.request("post", "request-challenge").json()
RequestChallenge ==
    /\ cpc = "request"
    /\ \E p \in Prefixes, t \in ChallengeDigests : data' = [prefix |-> p, target |-> t]
    /\ cnonce' = 0
    /\ cpc' = "solve"
    /\ UNCHANGED <<chash, token>>
    /\ UNCHANGED <<svars, kvars, avars>>

\* solve_challenge: one turn of the loop. Each nonce is hashed once: its sha256
\* digest is drawn when it is computed.
SolveChallenge ==
    /\ cpc = "solve"
    /\ \E h \in ChallengeDigests :
        IF verify_nonce(h, data.target)
        THEN /\ chash' = h
             /\ cpc' = "return"
             /\ cnonce' = cnonce
        ELSE /\ cnonce < MaxNonce
             /\ cnonce' = cnonce + 1
             /\ UNCHANGED <<chash, cpc>>
    /\ UNCHANGED <<data, token>>
    /\ UNCHANGED <<svars, kvars, avars>>

\* request_challenge: return f"{data['prefix']}:{nonce}"
ReturnToken ==
    /\ cpc = "return"
    /\ token' = [prefix |-> data.prefix, nonce |-> cnonce]
    /\ cpc' = "done"
    /\ UNCHANGED <<data, cnonce, chash>>
    /\ UNCHANGED <<svars, kvars, avars>>

(***************************************************************************)
(* Text: a str is a sequence of characters.                                *)
(***************************************************************************)
NL == "\n"
Digit == {"0", "1", "2", "3", "4", "5", "6", "7", "8", "9"}
DigitChars == <<"0", "1", "2", "3", "4", "5", "6", "7", "8", "9">>
DigitVal(c) == (CHOOSE k \in 1..10 : DigitChars[k] = c) - 1

\* str.split(sep): the pieces between the occurrences of the character sep
RECURSIVE SplitFrom(_, _, _, _)
SplitFrom(s, sep, i, cur) ==
    IF i > Len(s) THEN <<cur>>
    ELSE IF s[i] = sep THEN <<cur>> \o SplitFrom(s, sep, i + 1, << >>)
    ELSE SplitFrom(s, sep, i + 1, Append(cur, s[i]))

Split(s, sep) == SplitFrom(s, sep, 1, << >>)

\* "\n".join(lines)
RECURSIVE Join(_)
Join(lines) ==
    IF Len(lines) = 0 THEN << >>
    ELSE IF Len(lines) = 1 THEN lines[1]
    ELSE lines[1] \o <<NL>> \o Join(Tail(lines))

IsSpace(c) == c \in {" ", NL}

\* str.lstrip()
RECURSIVE LStrip(_)
LStrip(s) == IF Len(s) > 0 /\ IsSpace(s[1]) THEN LStrip(Tail(s)) ELSE s

\* str.rstrip()
RECURSIVE RStrip(_)
RStrip(s) ==
    IF Len(s) > 0 /\ IsSpace(s[Len(s)]) THEN RStrip(SubSeq(s, 1, Len(s) - 1)) ELSE s

\* str.strip()
Strip(s) == LStrip(RStrip(s))

\* str(n) of an integer
RECURSIVE StrNat(_)
StrNat(n) == IF n < 10 THEN <<DigitChars[n + 1]>> ELSE StrNat(n \div 10) \o <<DigitChars[(n % 10) + 1]>>

Str(n) == IF n < 0 THEN <<"-">> \o StrNat(0 - n) ELSE StrNat(n)

\* str.zfill(2): zeros on the left, after a sign
ZFill2(s) ==
    IF Len(s) >= 2 THEN s
    ELSE IF Len(s) = 1 THEN <<"0">> \o s
    ELSE <<"0", "0">>

\* str.rstrip('0')
RECURSIVE RStripZeros(_)
RStripZeros(s) ==
    IF Len(s) > 0 /\ s[Len(s)] = "0" THEN RStripZeros(SubSeq(s, 1, Len(s) - 1)) ELSE s

\* str.ljust(2, '0')
LJust2(s) ==
    IF Len(s) >= 2 THEN s
    ELSE IF Len(s) = 1 THEN s \o <<"0">>
    ELSE <<"0", "0">>

\* SYNCED_EXPR = \[(\d{2}:\d{2}.\d{2})\](.*) matched at position i of a line:
\* the dot before the last two digits is the regular expression's any-character.
MatchAt(line, i) ==
    /\ i + 9 <= Len(line)
    /\ line[i] = "["
    /\ line[i + 1] \in Digit /\ line[i + 2] \in Digit
    /\ line[i + 3] = ":"
    /\ line[i + 4] \in Digit /\ line[i + 5] \in Digit
    /\ line[i + 7] \in Digit /\ line[i + 8] \in Digit
    /\ line[i + 9] = "]"

HasMatch(line) == \E i \in 1..Len(line) : MatchAt(line, i)

\* re.findall(SYNCED_EXPR, line)[0] on one line: the leftmost match
FirstMatch(line) == CHOOSE i \in 1..Len(line) :
    MatchAt(line, i) /\ \A j \in 1..(i - 1) : ~MatchAt(line, j)

MatchTime(line) == SubSeq(line, FirstMatch(line) + 1, FirstMatch(line) + 8)
MatchText(line) == SubSeq(line, FirstMatch(line) + 10, Len(line))

\* The SS.xx of minute 00 for which int(1000 * float("SS.xx")) is one less than
\* 1000 * SS + 10 * xx in IEEE double arithmetic; with a minute of 01 or more the
\* sum 60000 * MM + 1000 * float("SS.xx") rounds to the exact value.
FloatShort == {
    <<2, 1>>, <<2, 3>>, <<4, 2>>, <<4, 6>>, <<8, 3>>, <<8, 4>>, <<8, 11>>, <<8, 12>>,
    <<8, 19>>, <<16, 6>>, <<16, 8>>, <<16, 13>>, <<16, 15>>, <<16, 22>>, <<16, 24>>,
    <<16, 31>>, <<16, 33>>, <<16, 38>>, <<32, 1>>, <<32, 5>>, <<32, 12>>, <<32, 16>>,
    <<32, 19>>, <<32, 23>>, <<32, 26>>, <<32, 30>>, <<32, 37>>, <<32, 41>>, <<32, 44>>,
    <<32, 48>>, <<32, 51>>, <<32, 55>>, <<32, 62>>, <<32, 66>>, <<32, 69>>, <<32, 73>>,
    <<32, 76>>, <<64, 2>>, <<64, 7>>, <<64, 10>>, <<64, 13>>, <<64, 21>>, <<64, 24>>,
    <<64, 27>>, <<64, 32>>, <<64, 35>>, <<64, 38>>, <<64, 46>>, <<64, 49>>, <<64, 52>>,
    <<64, 57>>, <<64, 60>>, <<64, 63>>, <<64, 71>>, <<64, 74>>, <<64, 77>>, <<64, 82>>,
    <<64, 85>>, <<64, 88>>, <<64, 96>>, <<64, 99>>, <<65, 2>>, <<65, 7>>, <<65, 10>>,
    <<65, 13>>, <<65, 21>>, <<65, 24>>, <<65, 27>>, <<65, 32>>, <<65, 35>>, <<65, 38>>,
    <<65, 46>>, <<65, 49>>, <<65, 52>>}

Num2(a, b) == 10 * DigitVal(a) + DigitVal(b)

\* float(time[3:]) is defined when the any-character is "." or a digit
TimeIsNumber(time) == time[6] = "." \/ time[6] \in Digit

\* int((60000 * int(time[:2])) + (1000 * float(time[3:])))
TimeToMillis(time) ==
    LET mm == Num2(time[1], time[2])
        ss == Num2(time[4], time[5])
        xx == Num2(time[7], time[8])
    IN  IF time[6] = "."
        THEN 60000 * mm + 1000 * ss + 10 * xx
             - (IF mm = 0 /\ <<ss, xx>> \in FloatShort THEN 1 ELSE 0)
        ELSE 60000 * mm + 1000 * (1000 * ss + 100 * DigitVal(time[6]) + xx)

Ok(v) == [ok |-> TRUE, value |-> v, error |-> ""]
Raise(e) == [ok |-> FALSE, value |-> << >>, error |-> e]

\* AudioFile.parse_lyrics: the loop over lyrics.split("\n"), from line k
RECURSIVE ParseLines(_, _, _)
ParseLines(lines, k, acc) ==
    IF k > Len(lines) THEN Ok(acc)
    ELSE IF Strip(lines[k]) = << >> THEN ParseLines(lines, k + 1, acc)
    ELSE IF ~HasMatch(lines[k]) THEN Raise("IndexError")
    ELSE IF ~TimeIsNumber(MatchTime(lines[k])) THEN Raise("ValueError")
    ELSE ParseLines(lines, k + 1,
            Append(acc, <<Strip(MatchText(lines[k])), TimeToMillis(MatchTime(lines[k]))>>))

\* AudioFile.parse_lyrics
parse_lyrics(lyrics) == ParseLines(Split(lyrics, NL), 1, << >>)

\* dump_lyrics: str(millisc).rstrip('0').ljust(2, '0')
Fraction(millisc) == LJust2(RStripZeros(Str(millisc)))

\* AudioFile.dump_lyrics: one line of converted
DumpLine(text, time) ==
    LET minutes == time \div 60000
        seconds == (time \div 1000) - (minutes * 60)
        millisc == time - (minutes * 60000) - (seconds * 1000)
    IN  <<"[">> \o ZFill2(Str(minutes)) \o <<":">> \o ZFill2(Str(seconds)) \o <<".">>
        \o Fraction(millisc) \o <<"]", " ">> \o text

\* AudioFile.dump_lyrics
dump_lyrics(lyrics) == Join([k \in 1..Len(lyrics) |-> DumpLine(lyrics[k][1], lyrics[k][2])])

\* the lines of lyrics.split("\n") that are not blank
RECURSIVE NonBlank(_)
NonBlank(lines) ==
    IF Len(lines) = 0 THEN << >>
    ELSE IF Strip(lines[1]) = << >> THEN NonBlank(Tail(lines))
    ELSE <<lines[1]>> \o NonBlank(Tail(lines))

\* format_lyrics: re.findall over the whole text finds the leftmost match of each
\* line that has one (neither the any-character nor .* crosses a newline)
RECURSIVE FormatLines(_)
FormatLines(lines) ==
    IF Len(lines) = 0 THEN << >>
    ELSE IF HasMatch(lines[1])
         THEN <<<<"[">> \o MatchTime(lines[1]) \o <<"]", " ">> \o MatchText(lines[1])>>
              \o FormatLines(Tail(lines))
         ELSE FormatLines(Tail(lines))

\* format_lyrics
format_lyrics(lyrics) == Join(FormatLines(Split(lyrics, NL)))

StartsWithBracket(line) == Len(line) > 0 /\ line[1] = "["

\* process_lyrics: all([line.startswith("[") for line in ... if line.strip()])
AllLinesStartWithBracket(lines) == \A k \in 1..Len(lines) : StartsWithBracket(lines[k])

\* process_lyrics: (plain lyrics, synced lyrics or None)
process_lyrics(lyrics) ==
    LET lines == NonBlank(Split(lyrics, NL))
    IN  IF AllLinesStartWithBracket(lines)
        THEN IF \E k \in 1..Len(lines) : Len(Split(lines[k], "]")) < 2
             THEN Raise("IndexError")
             ELSE Ok([plain |-> Join([k \in 1..Len(lines) |-> LStrip(Split(lines[k], "]")[2])]),
                      synced |-> Some(format_lyrics(lyrics))])
        ELSE Ok([plain |-> lyrics, synced |-> None])

(***************************************************************************)
(* The codec applied: dump_lyrics, parse_lyrics and process_lyrics.        *)
(***************************************************************************)
Word(k) == IF k = 1 THEN <<"H", "i">> ELSE <<"Y", "o">>

\* the offsets of the documents: whole seconds plus a multiple of 10 ms
DocTimes == {1000 * sec + 10 * cs : sec \in 0..MaxSec, cs \in 0..MaxCs}
DocLines == {<<Word(k), time>> : k \in 1..2, time \in DocTimes}
Docs == UNION {[1..n -> DocLines] : n \in 1..MaxLines}

\* the lines of the texts read from a file
TextLines == {
    <<"[", "0", "0", ":", "0", "1", ".", "0", "0", "]", " ", "H", "i">>,
    <<"[", "0", "0", ":", "0", "2", ".", "5", "0", "]", "Y", "o">>,
    <<"[", "C", "h", "o", "r", "u", "s", "]">>,
    <<"H", "i">>,
    << >>}
Texts == {Join(ls) : ls \in UNION {[1..n -> TextLines] : n \in 1..MaxLines}}

\* a document to dump, or a text read from a file with read_text
CodecInit ==
    /\ Idle("codec")
    /\ \/ /\ lyrics_doc \in {Some(d) : d \in Docs}
          /\ lyrics_text = None
       \/ /\ lyrics_doc = None
          /\ lyrics_text \in {Some(t) : t \in Texts}
    /\ parsed = None
    /\ processed = None

\* AudioFile.dump_lyrics(lyrics)
DumpLyrics ==
    /\ lyrics_doc # None
    /\ lyrics_text = None
    /\ lyrics_text' = Some(dump_lyrics(lyrics_doc[1]))
    /\ UNCHANGED <<lyrics_doc, parsed, processed>>
    /\ UNCHANGED <<svars, cvars, avars>>

\* AudioFile.parse_lyrics(lyrics)
ParseLyrics ==
    /\ lyrics_text # None
    /\ parsed = None
    /\ parsed' = Some(parse_lyrics(lyrics_text[1]))
    /\ UNCHANGED <<lyrics_doc, lyrics_text, processed>>
    /\ UNCHANGED <<svars, cvars, avars>>

\* process_lyrics(lyrics)
ProcessLyrics ==
    /\ lyrics_text # None
    /\ processed = None
    /\ processed' = Some(process_lyrics(lyrics_text[1]))
    /\ UNCHANGED <<lyrics_doc, lyrics_text, parsed>>
    /\ UNCHANGED <<svars, cvars, avars>>

(***************************************************************************)
(* AudioFile: the tag container. A tag store is a sequence of entries      *)
(* [key, value] in document order; the key of a lyrics frame is <<frame    *)
(* name, language>> for "USLT::eng", and a value holds a str (text) or a   *)
(* list of (text, time) (lines).                                           *)
(***************************************************************************)
CLASS_MAPPING == (".mp3" :> "MP3") @@ (".flac" :> "FLAC") @@ (".m4a" :> "MP4")

Languages == {"eng", "XXX"}
DefaultLanguage == "XXX"

StrValue(text) == [kind |-> "str", lang |-> "", text |-> text, lines |-> << >>]
ListValue(lines) == [kind |-> "list", lang |-> "", text |-> << >>, lines |-> lines]
\* USLT(lang = language, text = lyrics)
USLT(language, text) == [kind |-> "USLT", lang |-> language, text |-> text, lines |-> << >>]
\* SYLT(lang = language, text = lyrics, format = 2, type = 1)
SYLT(language, lines) == [kind |-> "SYLT", lang |-> language, text |-> << >>, lines |-> lines]

LyricsKey == <<"LYRICS", "">>
AtomLyricsKey == <<"\\xa9lyr", "">>

HasTag(tags, key) == \E k \in 1..Len(tags) : tags[k].key = key
TagIndex(tags, key) == CHOOSE k \in 1..Len(tags) : tags[k].key = key

\* AudioFile.get_tag: the field under the key, or None (the lyrics keys are in no TAG_MAPPING)
get_tag(tags, key) ==
    IF HasTag(tags, key) THEN Some(tags[TagIndex(tags, key)].value) ELSE None

\* AudioFile.set_tag: self.file[tag] = value, a present key keeping its place
set_tag(tags, key, value) ==
    IF HasTag(tags, key)
    THEN [tags EXCEPT ![TagIndex(tags, key)] = [key |-> key, value |-> value]]
    ELSE Append(tags, [key |-> key, value |-> value])

IsLyricsFrame(entry) == entry.key[1] \in {"USLT", "SYLT"}

\* get_lyrics without a language: the first USLT or SYLT frame of self.file.items()
FirstLyricsFrame(tags) ==
    IF \E k \in 1..Len(tags) : IsLyricsFrame(tags[k])
    THEN Some(tags[CHOOSE k \in 1..Len(tags) :
                    IsLyricsFrame(tags[k]) /\ \A j \in 1..(k - 1) : ~IsLyricsFrame(tags[j])].value)
    ELSE None

\* get_lyrics with a language: get_tag("USLT::...") or get_tag("SYLT::...")
LanguageFrame(tags, language) ==
    IF get_tag(tags, <<"USLT", language>>) # None
    THEN get_tag(tags, <<"USLT", language>>)
    ELSE get_tag(tags, <<"SYLT", language>>)

\* get_lyrics: a SYLT frame is dumped; str(lyrics) if lyrics else None
FrameText(frame) ==
    IF frame = None THEN None
    ELSE IF frame[1].kind = "SYLT"
         THEN (IF dump_lyrics(frame[1].lines) = << >> THEN None
               ELSE Some(dump_lyrics(frame[1].lines)))
         ELSE Some(frame[1].text)

\* a flat field: get_tag gives field[0], here the str stored
FieldText(field) == IF field = None THEN None ELSE Some(field[1].text)

\* the flat lyrics field of a FLAC or an MP4, when what is stored under it is a list
ListField(cls, tags) ==
    LET field == get_tag(tags, IF cls = "FLAC" THEN LyricsKey ELSE AtomLyricsKey)
    IN  IF cls # "MP3" /\ field # None /\ field[1].kind = "list" THEN field ELSE None

\* AudioFile.get_lyrics: the text, or None
get_lyrics(cls, tags, language) ==
    IF cls = "FLAC" THEN FieldText(get_tag(tags, LyricsKey))
    ELSE IF cls = "MP4" THEN FieldText(get_tag(tags, AtomLyricsKey))
    ELSE IF language # None THEN FrameText(LanguageFrame(tags, language[1]))
    ELSE FrameText(FirstLyricsFrame(tags))

Stored(tags) == [ok |-> TRUE, error |-> "", tags |-> tags, saved |-> TRUE]
Failed(e, tags) == [ok |-> FALSE, error |-> e, tags |-> tags, saved |-> FALSE]

\* set_lyrics on an MP3: parse a str when synced, build the frame, set_tag
SetLyricsId3(tags, state, lyrics, language) ==
    IF state = "synced"
    THEN IF lyrics.kind = "str"
         THEN IF parse_lyrics(lyrics.text).ok
              THEN {Stored(set_tag(tags, <<"SYLT", language>>,
                                   SYLT(language, parse_lyrics(lyrics.text).value)))}
              ELSE {Failed(parse_lyrics(lyrics.text).error, tags)}
         ELSE {Stored(set_tag(tags, <<"SYLT", language>>, SYLT(language, lyrics.lines)))}
    ELSE IF lyrics.kind = "str"
         THEN {Stored(set_tag(tags, <<"USLT", language>>, USLT(language, lyrics.text)))}
         ELSE {Failed("TypeError", tags)}

\* a list of str is the tag library's own form of a text atom; the lists of the model
\* hold (text, time) pairs, so that only the empty list is a list of str
IsStrList(lines) == lines = << >>

\* set_lyrics on an MP4: self.set_tag("\xa9lyr", lyrics) whatever lyrics is. The tag
\* library takes a str or a list of str; another list it refuses, when the key is
\* assigned or when the file is saved.
SetLyricsMp4(tags, lyrics) ==
    IF lyrics.kind = "str"
    THEN {Stored(set_tag(tags, AtomLyricsKey, StrValue(lyrics.text)))}
    ELSE IF IsStrList(lyrics.lines)
    THEN {Stored(set_tag(tags, AtomLyricsKey, ListValue(lyrics.lines)))}
    ELSE {Failed("TypeError", tags),
          Failed("TypeError", set_tag(tags, AtomLyricsKey, ListValue(lyrics.lines)))}

\* AudioFile.set_lyrics: the outcomes, each with the tag store it leaves in memory
set_lyrics(cls, tags, state, lyrics, language) ==
    IF cls = "FLAC"
    THEN IF lyrics.kind = "list" THEN {Failed("ValueError", tags)}
         ELSE {Stored(set_tag(tags, LyricsKey, StrValue(lyrics.text)))}
    ELSE IF cls = "MP4" THEN SetLyricsMp4(tags, lyrics)
    ELSE SetLyricsId3(tags, state, lyrics, language)

\* a construction that hands the path to the tag library before looking at the suffix
ConstructedFirst(suffix) ==
    IF suffix \in DOMAIN CLASS_MAPPING
    THEN [ok |-> TRUE, error |-> "", invoked |-> TRUE]
    ELSE [ok |-> FALSE, error |-> "UnsupportedSuffix", invoked |-> TRUE]

\* AudioFile.__init__: the suffix is checked before CLASS_MAPPING[path.suffix](path)
Constructed(suffix) ==
    IF suffix \notin DOMAIN CLASS_MAPPING
    THEN [ok |-> FALSE, error |-> "UnsupportedSuffix", invoked |-> FALSE]
    ELSE [ok |-> TRUE, error |-> "", invoked |-> TRUE]

Suffixes == {".mp3", ".flac", ".m4a", ".lrc", ".xyz", ".MP3"}

\* the lyrics handed to set_lyrics
Chars(k) ==
    CASE k = 1 -> <<"[", "0", "0", ":", "0", "1", ".", "0", "0", "]", " ", "H", "i">>
      [] k = 2 -> <<"[", "0", "0", ":", "0", "1", ".", "0", "5", "]", " ", "H", "i">>
      [] k = 3 -> <<"[", "0", "0", ":", "0", "1", ".", "5", "0", "]", "H", "i", NL,
                    "[", "0", "1", ":", "0", "2", ".", "0", "0", "]", " ", "Y", "o">>
      [] OTHER -> <<"H", "i">>
Payloads == {StrValue(Chars(k)) : k \in 1..4}
            \cup {ListValue(<< <<Word(1), 1000>> >>), ListValue(<< >>)}

\* a file with no lyrics in it, and no AudioFile yet
AudioInit ==
    /\ Idle("audio")
    /\ disk \in {[suffix |-> s, tags |-> << >>, text |-> << >>] : s \in Suffixes}
    /\ audio = None
    /\ loaded = FALSE
    /\ setlog = << >>
    /\ ret = NoRet

\* AudioFile(path)
AudioFileInit ==
    /\ audio = None
    /\ LET c == Constructed(disk.suffix)
       IN  /\ loaded' = (loaded \/ c.invoked)
           /\ audio' = IF c.ok THEN Some([cls |-> CLASS_MAPPING[disk.suffix], tags |-> disk.tags])
                       ELSE None
           /\ ret' = [NoRet EXCEPT !.op = "AudioFile", !.ok = c.ok, !.error = c.error]
    /\ UNCHANGED <<disk, setlog>>
    /\ UNCHANGED <<svars, cvars, kvars>>

\* AudioFile.get_lyrics(language)
\* (of a list under the flat field get_tag gives field[0]: the first element, which
\* is no str, or an IndexError)
GetLyrics(language) ==
    /\ audio # None
    /\ LET field == ListField(audio[1].cls, audio[1].tags)
       IN  ret' = IF field = None
                  THEN [NoRet EXCEPT !.op = "get_lyrics", !.language = language,
                            !.text = get_lyrics(audio[1].cls, audio[1].tags, language)]
                  ELSE IF field[1].lines = << >>
                  THEN [NoRet EXCEPT !.op = "get_lyrics", !.language = language,
                                     !.ok = FALSE, !.error = "IndexError"]
                  ELSE [NoRet EXCEPT !.op = "get_lyrics", !.language = language,
                                     !.arg = Some(field[1].lines[1])]
    /\ UNCHANGED <<disk, audio, loaded, setlog>>
    /\ UNCHANGED <<svars, cvars, kvars>>

\* AudioFile.set_lyrics(state, lyrics, language): set_tag saves the file
SetLyrics(state, lyrics, language) ==
    /\ audio # None
    /\ Len(setlog) < MaxCalls
    /\ \E o \in set_lyrics(audio[1].cls, audio[1].tags, state, lyrics, language) :
        /\ audio' = Some([audio[1] EXCEPT !.tags = o.tags])
        /\ disk' = IF o.saved THEN [disk EXCEPT !.tags = o.tags] ELSE disk
        /\ setlog' = Append(setlog, [state |-> state, lyrics |-> lyrics,
                                     language |-> language, ok |-> o.ok])
        /\ ret' = [NoRet EXCEPT !.op = "set_lyrics", !.ok = o.ok, !.error = o.error]
    /\ UNCHANGED loaded
    /\ UNCHANGED <<svars, cvars, kvars>>

(***************************************************************************)
(* The offset command of __main__.py, run on the file.                     *)
(***************************************************************************)
\* An offset argument: a first character, then the minutes before an "m" and the
\* seconds before an "s", each part absent (None) or a string of digits, maybe empty.
PartStrings == {Str(n) : n \in 1..MaxPart} \cup {<< >>}
Parts == {None} \cup {Some(p) : p \in PartStrings}
OffsetArgs == [direction : {"+", "-", "="}, minutes : Parts, seconds : Parts]

\* the argument as typed
OffsetString(a) ==
    <<a.direction>>
    \o (IF a.minutes = None THEN << >> ELSE a.minutes[1] \o <<"m">>)
    \o (IF a.seconds = None THEN << >> ELSE a.seconds[1] \o <<"s">>)

\* float(s) of a string of digits; float("") raises ValueError
FloatOk(s) == Len(s) > 0 /\ \A k \in 1..Len(s) : s[k] \in Digit

RECURSIVE FloatVal(_)
FloatVal(s) == IF Len(s) = 0 THEN 0 ELSE 10 * FloatVal(SubSeq(s, 1, Len(s) - 1)) + DigitVal(s[Len(s)])

\* offset: one turn of "for timeframe in [minutes, seconds]" on what is left of the argument
OffsetPart(rest, letter) ==
    LET split_items == Split(rest, letter)
    IN  IF Len(split_items) = 1 THEN [ok |-> TRUE, value |-> 0, rest |-> rest]
        ELSE IF ~FloatOk(split_items[1]) THEN [ok |-> FALSE, value |-> 0, rest |-> rest]
        ELSE [ok |-> TRUE, value |-> FloatVal(split_items[1]), rest |-> split_items[2]]

Direction(offset_direction) == IF offset_direction = "+" THEN 1 ELSE -1

\* offset: offset_int = (minutes * 60000) + (seconds * 1000) * (1 if direction == "+" else -1)
OffsetInt(minutes, seconds, offset_direction) ==
    (minutes * 60000) + ((seconds * 1000) * Direction(offset_direction))

\* the orders in which the tag library may hand out the frames it loads from a file
LoadOrders(tags) ==
    {[k \in 1..Len(tags) |-> tags[p[k]]] :
        p \in {q \in [1..Len(tags) -> 1..Len(tags)] : \A a, b \in 1..Len(tags) : q[a] = q[b] => a = b}}

HasBracket(s) == \E k \in 1..Len(s) : s[k] = "["

Shifted(lyrics, offset_int) ==
    [k \in 1..Len(lyrics) |-> <<lyrics[k][1], lyrics[k][2] + offset_int>>]

MaxOf(lyrics) == CHOOSE t \in {lyrics[k][2] : k \in 1..Len(lyrics)} :
    \A k \in 1..Len(lyrics) : lyrics[k][2] <= t

Message(arg, m) == [NoRet EXCEPT !.op = "offset", !.arg = Some(arg), !.ok = FALSE, !.error = m]

\* offset, from "lyrics = [...parse_lyrics(lyrics)]" on: the check of the first line,
\* the shift, and the write through set_lyrics or write_text
OffsetApply(arg, text, tags, offset_int) ==
    LET p == parse_lyrics(text)
    IN  IF ~p.ok THEN /\ ret' = Message(arg, p.error) /\ disk' = disk
        ELSE IF Len(p.value) = 0 THEN /\ ret' = Message(arg, "IndexError") /\ disk' = disk
        ELSE IF p.value[1][2] + offset_int < 0
        THEN /\ ret' = [Message(arg, "OutOfRange") EXCEPT !.first = p.value[1][2], !.delta = offset_int]
             /\ disk' = disk
        ELSE /\ MaxOf(p.value) + offset_int <= MaxTime
             /\ ret' = [NoRet EXCEPT !.op = "offset", !.arg = Some(arg),
                                     !.first = p.value[1][2], !.delta = offset_int]
             /\ IF disk.suffix \in DOMAIN CLASS_MAPPING
                THEN \E o \in set_lyrics(CLASS_MAPPING[disk.suffix], tags, "synced",
                                         StrValue(dump_lyrics(Shifted(p.value, offset_int))),
                                         DefaultLanguage) :
                        disk' = IF o.saved THEN [disk EXCEPT !.tags = o.tags] ELSE disk
                ELSE disk' = [disk EXCEPT !.text = dump_lyrics(Shifted(p.value, offset_int))]

\* offset(target, offset): one invocation of the command, which exits after the handler
Offset(arg) ==
    LET offset == OffsetString(arg)
        offset_direction == offset[1]
        minutes == OffsetPart(Tail(offset), "m")
        seconds == OffsetPart(minutes.rest, "s")
        offset_int == OffsetInt(minutes.value, seconds.value, offset_direction)
    IN  /\ ret.op = ""
        /\ IF offset_direction \notin {"+", "-"}
           THEN /\ ret' = Message(arg, "InvalidDirection") /\ UNCHANGED <<disk, loaded>>
           ELSE IF ~minutes.ok \/ ~seconds.ok
           THEN /\ ret' = Message(arg, "InvalidNumber") /\ UNCHANGED <<disk, loaded>>
           ELSE IF ~Constructed(disk.suffix).ok
           THEN /\ loaded' = (loaded \/ Constructed(disk.suffix).invoked)
                /\ OffsetApply(arg, disk.text, disk.tags, offset_int)
           ELSE /\ loaded' = (loaded \/ Constructed(disk.suffix).invoked)
                /\ \E tags \in LoadOrders(disk.tags) :
                    LET lyrics == get_lyrics(CLASS_MAPPING[disk.suffix], tags, None)
                    IN  IF lyrics = None
                        THEN /\ ret' = Message(arg, "NoLyrics") /\ disk' = disk
                        ELSE IF ~HasBracket(lyrics[1])
                        THEN /\ ret' = Message(arg, "Unsynced") /\ disk' = disk
                        ELSE OffsetApply(arg, lyrics[1], tags, offset_int)
        /\ UNCHANGED <<audio, setlog>>
        /\ UNCHANGED <<svars, cvars, kvars>>

\* the documents stored in the file before the command
StoredDocs == {<< <<Word(1), 1000 * s>>, <<Word(2), 1000 * s + 1500>> >> : s \in 0..MaxStart}

\* an .lrc file, an MP3 with a SYLT or a USLT frame or none, a FLAC with a LYRICS field
OffsetTargets ==
    {[suffix |-> ".lrc", tags |-> << >>, text |-> dump_lyrics(d)] : d \in StoredDocs}
    \cup {[suffix |-> ".mp3", text |-> << >>,
           tags |-> <<[key |-> <<"SYLT", l>>, value |-> SYLT(l, d)]>>] :
            l \in Languages, d \in StoredDocs}
    \cup {[suffix |-> ".flac", text |-> << >>,
           tags |-> <<[key |-> LyricsKey, value |-> StrValue(dump_lyrics(d))]>>] : d \in StoredDocs}
    \cup {[suffix |-> ".mp3", text |-> << >>,
           tags |-> <<[key |-> <<"USLT", DefaultLanguage>>,
                       value |-> USLT(DefaultLanguage, Word(1))]>>],
          [suffix |-> ".mp3", text |-> << >>, tags |-> << >>]}

OffsetInit ==
    /\ Idle("audio")
    /\ disk \in OffsetTargets
    /\ audio = None
    /\ loaded = FALSE
    /\ setlog = << >>
    /\ ret = NoRet

(***************************************************************************)
(* The specifications.                                                     *)
(***************************************************************************)
SolveNext ==
    \/ SolveStart
    \/ \E i \in Threads : FindNonceCheck(i)
    \/ \E i \in Threads : FindNonceHash(i)
    \/ \E i \in Threads : FindNonceWrite(i)
    \/ SolveJoin

SpecSolve == SolveInit /\ [][SolveNext]_vars

ClientNext ==
    \/ RequestChallenge
    \/ SolveChallenge
    \/ ReturnToken

SpecClient == ClientInit /\ [][ClientNext]_vars

CodecNext ==
    \/ DumpLyrics
    \/ ParseLyrics
    \/ ProcessLyrics

SpecCodec == CodecInit /\ [][CodecNext]_vars

AudioNext ==
    \/ AudioFileInit
    \/ \E language \in {None} \cup {Some(l) : l \in Languages} : GetLyrics(language)
    \/ \E state \in {"synced", "unsynced"}, lyrics \in Payloads, language \in Languages :
        SetLyrics(state, lyrics, language)

Spec == AudioInit /\ [][AudioNext]_vars

OffsetNext == \E arg \in OffsetArgs : Offset(arg)

SpecOffset == OffsetInit /\ [][OffsetNext]_vars

\* a byte string read as an unsigned big-endian integer: int.from_bytes(b, "big")
RECURSIVE BigEndian(_)
BigEndian(b) ==
    IF Len(b) = 0 THEN 0
    ELSE 256 * BigEndian(SubSeq(b, 1, Len(b) - 1)) + b[Len(b)]

\* sha256(prefix + str(n)) is known for the nonces that were written
Sha256Known(n) == \E k \in DOMAIN writes : writes[k].nonce = n

Sha256Of(n) == writes[CHOOSE k \in DOMAIN writes : writes[k].nonce = n].hash

\* C1: the value solve returns is a nonce whose digest, read as an unsigned
\* big-endian integer, is strictly less than the target.
C1_ReturnedNonceIsValid ==
    mpc = "returned" =>
        /\ result \in Nat
        /\ Sha256Known(result)
        /\ BigEndian(Sha256Of(result)) < BigEndian(target)

\* C1 witness: solve has returned a valid nonce after two threads wrote the slot.
C1_Witness ==
    /\ mpc = "returned"
    /\ Len(writes) >= 2
    /\ Sha256Known(result)
    /\ BigEndian(Sha256Of(result)) < BigEndian(target)

\* C2: once a worker has written a valid nonce n >= 0 to the found slot, the slot
\* counts as non-empty (is_solved), so that every other worker stops at its next check.
C2_WrittenSlotIsSolved ==
    writes # << >> => is_solved(solution)

\* C10 as stated: the value solve returns is the first value any worker wrote.
C10_FirstWriteWins ==
    mpc = "returned" => (writes # << >> /\ result = writes[1].nonce)

\* C10 as amended: the slot is written at most once per worker, every write
\* replaces the value before it, and solve returns the value written last.
C10_LastWriteWins ==
    /\ Len(writes) <= Workers
    /\ writes # << >> => solution = writes[Len(writes)].nonce
    /\ mpc = "returned" => (writes # << >> /\ result = writes[Len(writes)].nonce)

\* C10 witness: solve returned a value written after the first write.
C10_Witness ==
    /\ mpc = "returned"
    /\ Len(writes) >= 2
    /\ result = writes[Len(writes)].nonce
    /\ result # writes[1].nonce

\* C7: the nonce in the token is accepted only if its digest is strictly less
\* than the target: not a digest equal to the target, nor one larger in the last byte.
C7_AcceptedOnlyIfStrictlyLess ==
    cpc = "done" =>
        /\ token = [prefix |-> data.prefix, nonce |-> cnonce]
        /\ BigEndian(chash) < BigEndian(data.target)

\* C3: for a document whose offsets are non-negative multiples of 10 ms,
\* parse_lyrics(dump_lyrics(d)) equals d.
C3_RoundTrip ==
    (lyrics_doc # None /\ parsed # None) =>
        (parsed[1].ok /\ parsed[1].value = lyrics_doc[1])

\* a line of the timestamp grammar [MM:SS.xx]<text>
MatchesGrammar(line) == MatchAt(line, 1) /\ line[7] = "."

\* C4: the text classifies as synced iff every non-blank line matches the timestamp
\* grammar; with a non-blank line that does not match, the result is plain, with
\* the text unmodified and no synced lyrics.
C4_SyncedIffAllLinesMatch ==
    (lyrics_doc = None /\ processed # None) =>
        LET lines == NonBlank(Split(lyrics_text[1], NL))
            allMatch == \A k \in 1..Len(lines) : MatchesGrammar(lines[k])
        IN  /\ processed[1].ok
            /\ (processed[1].value.synced # None) <=> allMatch
            /\ ~allMatch => processed[1].value.plain = lyrics_text[1]

\* the delta an offset argument asks for: sign * (minutes * 60000 + seconds * 1000)
Requested(a) ==
    (IF a.direction = "+" THEN 1 ELSE -1)
    * ((IF a.minutes = None THEN 0 ELSE 60000 * FloatVal(a.minutes[1]))
       + (IF a.seconds = None THEN 0 ELSE 1000 * FloatVal(a.seconds[1])))

\* offset read its argument and the first line of the document
OffsetComputed == ret.op = "offset" /\ ret.error \in {"", "OutOfRange"}

\* C5: offset on a synced document whose first line's offset plus the requested
\* delta is negative fails with the out-of-range error and writes nothing.
C5_NegativeOffsetRejected ==
    [][(/\ ret'.op = "offset"
        /\ ret'.error \in {"", "OutOfRange"}
        /\ ret'.first + Requested(ret'.arg[1]) < 0)
       => (ret'.error = "OutOfRange" /\ disk' = disk)]_vars

\* C6: on an MP3 with no lyrics frames, set_lyrics("synced", t, L) with a well-formed
\* t, then get_lyrics(L), gives a text that parses to the same lines as t.
C6_SetThenGetParsesBack ==
    (/\ audio # None
     /\ ret.op = "get_lyrics"
     /\ Len(setlog) = 1
     /\ audio[1].cls = "MP3"
     /\ setlog[1].state = "synced"
     /\ setlog[1].lyrics.kind = "str"
     /\ parse_lyrics(setlog[1].lyrics.text).ok
     /\ ret.language = Some(setlog[1].language))
    => (/\ ret.text # None
        /\ parse_lyrics(ret.text[1]) = parse_lyrics(setlog[1].lyrics.text))

\* C8: with a suffix outside .mp3, .flac, .m4a the constructor fails with the
\* unsupported-format error, the tag library is never invoked on the file and no
\* container object is produced.
C8_UnsupportedSuffixNoIO ==
    disk.suffix \notin {".mp3", ".flac", ".m4a"} =>
        /\ audio = None
        /\ ~loaded
        /\ ret.op = "AudioFile" => (~ret.ok /\ ret.error = "UnsupportedSuffix")

\* C8 witness: the constructor was called on an .xyz file and raised.
C8_Witness ==
    /\ disk.suffix = ".xyz"
    /\ ret.op = "AudioFile"
    /\ ret.error = "UnsupportedSuffix"
    /\ audio = None
    /\ ~loaded

\* C9: the delta offset computes is sign * (minutes * 60000 + seconds * 1000), for
\* every combination of present and absent minutes and seconds.
C9_DeltaIsSignedSum ==
    OffsetComputed => ret.delta = Requested(ret.arg[1])

\* C11: on an MP3, get_lyrics(L) with a language L gives the synced frame stored
\* for L, as LRC text, whenever one exists, and the unsynced frame for L only when
\* no synced frame for L exists.
C11_SyncedFrameFirst ==
    (/\ audio # None
     /\ audio[1].cls = "MP3"
     /\ ret.op = "get_lyrics"
     /\ ret.language # None)
    => LET synced == get_tag(audio[1].tags, <<"SYLT", ret.language[1]>>)
           unsynced == get_tag(audio[1].tags, <<"USLT", ret.language[1]>>)
       IN  /\ synced # None => ret.text = FrameText(synced)
           /\ (synced = None /\ unsynced # None) => ret.text = FrameText(unsynced)

\* C12: set_lyrics on a FLAC or an MP4 with a list payload is signalled as an error,
\* and nothing is written: the tag store in memory and the file are unchanged.
C12_ListPayloadRefused ==
    [][(/\ audio # None
        /\ audio[1].cls \in {"FLAC", "MP4"}
        /\ ret'.op = "set_lyrics"
        /\ Len(setlog') = Len(setlog) + 1
        /\ setlog'[Len(setlog')].lyrics.kind = "list")
       => (~ret'.ok /\ audio' = audio /\ disk' = disk)]_vars

====
